---- MODULE Spec2Model ----
(***************************************************************************)
(* Poseidon permutation gadget of ethsnarks (src/src/gadgets/poseidon.hpp) *)
(* as a state machine: the round constants, the x^5 S-box, the round       *)
(* gadget, the master permutation on its own protoboard, and the instance  *)
(* stamper that binds the shared master into a caller protoboard.          *)
(***************************************************************************)
EXTENDS Integers, Sequences, FiniteSets, TLC

(***************************************************************************)
(* Bounds of the model.  The template parameters (t, c, F, P, nInputs,     *)
(* nOutputs) are drawn from 1..MaxT, 1..MaxC, 4..MaxF, 1..MaxP and         *)
(* 1..MaxArity.  F starts at 4 and P at 1 because the master's constructor *)
(* takes back() of prefix_full_rounds, partial_rounds and                  *)
(* suffix_full_rounds (lines 333, 337, 338): with F < 4 or P = 0 one of    *)
(* these vectors is empty and the template cannot be instantiated with     *)
(* defined behaviour.  The scalar field is scaled down to the integers     *)
(* modulo FieldModulus.                                                    *)
(***************************************************************************)
FieldModulus == 7
MaxT == 2
MaxC == 2
MaxF == 5
MaxP == 2
MaxArity == 3
MaxInputVal == 1
MaxConsCalls == 1
MaxInstances == 2
MaxCallerVars == 2
MaxSwapCalls == 2
MaxWitnessCalls == 1

(***************************************************************************)
(* Field adapter (FieldT).                                                 *)
(***************************************************************************)
Field == 0 .. (FieldModulus - 1)

FAdd(a, b) == (a + b) % FieldModulus

FSub(a, b) == ((a - b) + FieldModulus) % FieldModulus

FMul(a, b) == (a * b) % FieldModulus

RECURSIVE FPow(_, _)
FPow(a, n) == IF n = 0 THEN 1 % FieldModulus ELSE FMul(a, FPow(a, n - 1))

\* FieldT::inverse(), by Fermat: a^(q-2).
FInverse(a) == FPow(a, FieldModulus - 2)

RECURSIVE FieldSum(_)
FieldSum(s) == IF Len(s) = 0 THEN 0 ELSE FAdd(Head(s), FieldSum(Tail(s)))

RECURSIVE BitLength(_)
BitLength(n) == IF n = 0 THEN 0 ELSE 1 + BitLength(n \div 2)

\* FieldT::size_in_bits(): the bit length of the modulus.
size_in_bits == BitLength(FieldModulus)

(***************************************************************************)
(* Linear combinations: a finite map from variable index to coefficient;   *)
(* index 0 is the constant ONE.  Constraints are records [a, b, c].        *)
(***************************************************************************)
EmptyLC == [v \in {} |-> 0]

LcTerm(v, coeff) == [w \in {v} |-> coeff % FieldModulus]

LcVar(v) == LcTerm(v, 1)

LcCoeff(lc, v) == IF v \in DOMAIN lc THEN lc[v] ELSE 0

LcAdd(x, y) ==
    [v \in (DOMAIN x) \cup (DOMAIN y) |-> FAdd(LcCoeff(x, v), LcCoeff(y, v))]

LcScale(x, k) == [v \in DOMAIN x |-> FMul(x[v], k)]

RECURSIVE LcSum(_)
LcSum(s) == IF Len(s) = 0 THEN EmptyLC ELSE LcAdd(Head(s), LcSum(Tail(s)))

\* pb.val(v) of a value table; variable 0 is the constant term 1.
Val(vals, v) == IF v = 0 THEN 1 % FieldModulus ELSE vals[v]

RECURSIVE LcValOver(_, _, _)
LcValOver(vals, lc, dom) ==
    IF dom = {} THEN 0
    ELSE LET v == CHOOSE w \in dom : TRUE
         IN  FAdd(FMul(lc[v], Val(vals, v)), LcValOver(vals, lc, dom \ {v}))

\* lc_val(pb, lc)
lc_val(vals, lc) == LcValOver(vals, lc, DOMAIN lc)

ConstraintT(a, b, c) == [a |-> a, b |-> b, c |-> c]

(***************************************************************************)
(* Constant generator.  BLAKE2b is an external byte oracle; its stand-in   *)
(* maps a byte string (a number below 256^output_size) to another one.     *)
(***************************************************************************)
n_bits_roundedup == size_in_bits + (8 - (size_in_bits % 8))

output_size == n_bits_roundedup \div 8

blake2b(data) == (data * 5 + 17) % (256 ^ output_size)

bytes_to_FieldT_littleendian(bytes) == bytes % FieldModulus

RECURSIVE HashChain(_, _)
HashChain(out, n) ==
    IF n = 0 THEN << >> ELSE <<out>> \o HashChain(blake2b(out), n - 1)

poseidon_constants_fill(seed, n_constants) ==
    LET outs == HashChain(blake2b(Len(seed)), n_constants)
    IN  [i \in 1 .. n_constants |-> bytes_to_FieldT_littleendian(outs[i])]

poseidon_matrix_fill(seed, t) ==
    LET c == poseidon_constants_fill(seed, t * 2)
    IN  [k \in 1 .. (t * t) |->
            LET i == (k - 1) \div t
                j == (k - 1) % t
            IN  FInverse(FSub(c[i + 1], c[t + j + 1]))]

poseidon_params(p) ==
    [C |-> poseidon_constants_fill("poseidon_constants", p.F + p.P),
     M |-> poseidon_matrix_fill("poseidon_matrix_0000", p.t)]

(***************************************************************************)
(* S-box gadget x -> x^5.  first is the index of the first of its three    *)
(* fresh variables.                                                        *)
(***************************************************************************)
FifthPower_gadget(first) == [x2 |-> first, x4 |-> first + 1, x5 |-> first + 2]

FifthPower_constraints(sb, x) ==
    << ConstraintT(x, x, LcVar(sb.x2)),
       ConstraintT(LcVar(sb.x2), LcVar(sb.x2), LcVar(sb.x4)),
       ConstraintT(x, LcVar(sb.x4), LcVar(sb.x5)) >>

\* The witness with x5 computed as x4 * x2.
FifthPower_witness_x6(vals, sb, val_x) ==
    LET val_x2 == FMul(val_x, val_x)
        val_x4 == FMul(val_x2, val_x2)
        val_x5 == FMul(val_x4, val_x2)
    IN  [vals EXCEPT ![sb.x2] = val_x2, ![sb.x4] = val_x4, ![sb.x5] = val_x5]

FifthPower_witness(vals, sb, val_x) ==
    LET val_x2 == FMul(val_x, val_x)
        val_x4 == FMul(val_x2, val_x2)
        val_x5 == FMul(val_x4, val_x)
    IN  [vals EXCEPT ![sb.x2] = val_x2, ![sb.x4] = val_x4, ![sb.x5] = val_x5]

(***************************************************************************)
(* Round gadget.  tp = [t, nSBox, nInputs, nOutputs] are its template      *)
(* parameters, nv the protoboard's variable count before construction,     *)
(* g the value an out-of-bounds read of M yields (only c > t reads one).   *)
(***************************************************************************)
MRead(M, idx, g) == IF idx < Len(M) THEN M[idx + 1] ELSE g

make_sboxes(nv, nSBox) ==
    [h \in 1 .. nSBox |-> FifthPower_gadget(nv + 1 + 3 * (h - 1))]

\* The outputs without the constant term of the rows.
make_outputs_no_constant(C_i, M, in_state, sboxes, tp, g) ==
    [i \in 1 .. tp.nOutputs |->
        LET M_offset == (i - 1) * tp.t
            boxes == [s \in 1 .. tp.nSBox |->
                        LcTerm(sboxes[s].x5, MRead(M, M_offset + s - 1, g))]
            rest  == [k \in 1 .. (tp.nInputs - tp.nSBox) |->
                        LcScale(in_state[tp.nSBox + k],
                                MRead(M, M_offset + tp.nSBox + k - 1, g))]
        IN  LcSum(boxes \o rest)]

make_outputs(C_i, M, in_state, sboxes, tp, g) ==
    [i \in 1 .. tp.nOutputs |->
        LET M_offset == (i - 1) * tp.t
            constant_term ==
                FieldSum([j \in 1 .. (tp.t - tp.nSBox) |->
                    FMul(C_i, MRead(M, M_offset + tp.nSBox + j - 1, g))])
            first == IF tp.nSBox < tp.t
                     THEN <<LcTerm(0, constant_term)>> ELSE << >>
            boxes == [s \in 1 .. tp.nSBox |->
                        LcTerm(sboxes[s].x5, MRead(M, M_offset + s - 1, g))]
            rest  == [k \in 1 .. (tp.nInputs - tp.nSBox) |->
                        LcScale(in_state[tp.nSBox + k],
                                MRead(M, M_offset + tp.nSBox + k - 1, g))]
        IN  LcSum(first \o boxes \o rest)]

Poseidon_Round(nv, C_i, M, in_state, tp, g) ==
    LET sb == make_sboxes(nv, tp.nSBox)
    IN  [C_i |-> C_i, state |-> in_state, sboxes |-> sb,
         outputs |-> make_outputs(C_i, M, in_state, sb, tp, g),
         nSBox |-> tp.nSBox, nInputs |-> tp.nInputs]

RECURSIVE RoundWitnessFrom(_, _, _)
RoundWitnessFrom(vals, r, h) ==
    IF h >= r.nSBox THEN vals
    ELSE LET value == IF h < r.nInputs
                      THEN FAdd(r.C_i, lc_val(vals, r.state[h + 1]))
                      ELSE r.C_i
         IN  RoundWitnessFrom(
                 FifthPower_witness(vals, r.sboxes[h + 1], value), r, h + 1)

Round_generate_r1cs_witness(vals, r) == RoundWitnessFrom(vals, r, 0)

RoundSboxInput(r, h) ==
    IF h < r.nInputs THEN LcAdd(r.state[h + 1], LcTerm(0, r.C_i))
    ELSE LcTerm(0, r.C_i)

\* Only the S-boxes fed by a state element are constrained.
Round_generate_r1cs_constraints_fed(r) ==
    [k \in 1 .. (3 * (IF r.nSBox < r.nInputs THEN r.nSBox ELSE r.nInputs)) |->
        LET h == (k - 1) \div 3
        IN  FifthPower_constraints(r.sboxes[h + 1],
                                   RoundSboxInput(r, h))[((k - 1) % 3) + 1]]

Round_generate_r1cs_constraints(r) ==
    [k \in 1 .. (3 * r.nSBox) |->
        LET h == (k - 1) \div 3
        IN  FifthPower_constraints(r.sboxes[h + 1],
                                   RoundSboxInput(r, h))[((k - 1) % 3) + 1]]

(***************************************************************************)
(* Master permutation gadget.  p = [t, c, F, P, nInputs, nOutputs].        *)
(***************************************************************************)
FirstRoundT(p) ==
    [t |-> p.t, nSBox |-> p.t, nInputs |-> p.nInputs, nOutputs |-> p.t]

PartialRoundT(p) ==
    [t |-> p.t, nSBox |-> p.c, nInputs |-> p.t, nOutputs |-> p.t]

FullRoundT(p) ==
    [t |-> p.t, nSBox |-> p.t, nInputs |-> p.t, nOutputs |-> p.t]

LastRoundT(p) ==
    [t |-> p.t, nSBox |-> p.t, nInputs |-> p.t, nOutputs |-> p.nOutputs]

partial_begin(p) == p.F \div 2

partial_end(p) == partial_begin(p) + p.P

\* One round too many.
total_rounds_plus_one(p) == p.F + p.P + 1

total_rounds(p) == p.F + p.P

Back(s) == s[Len(s)]

\* The loop of make_rounds from round i on; result holds the rounds built so
\* far and state the outputs the next round takes as its input state.
RECURSIVE MakeRoundsFrom(_, _, _, _, _, _, _, _)
RECURSIVE MakeRoundsEmplace(_, _, _, _, _, _, _, _)
MakeRoundsEmplace(i, n_end, nv, constants, tp, g, result, r) ==
    MakeRoundsFrom(i + 1, n_end, nv + 3 * tp.nSBox, r.outputs,
                   constants, tp, g, Append(result, r))

MakeRoundsFrom(i, n_end, nv, state, constants, tp, g, result) ==
    IF i >= n_end THEN result
    ELSE MakeRoundsEmplace(i, n_end, nv, constants, tp, g, result,
             Poseidon_Round(nv, constants.C[i + 1], constants.M, state, tp, g))

make_rounds(n_begin, n_end, nv, inputs, constants, tp, g) ==
    MakeRoundsFrom(n_begin, n_end, nv, inputs, constants, tp, g, << >>)

\* VariableArrayT_to_lc of the nInputs input variables 1 .. nInputs.
InputsToLc(n) == [k \in 1 .. n |-> LcVar(k)]

\* The member initializers of the master's constructor, in order.  m is the
\* gadget built so far; num_variables counts the variables of its protoboard,
\* which holds the nInputs input variables before the construction starts.
MembersInit(p) ==
    [status |-> "built", num_variables |-> p.nInputs,
     first_round |-> << >>, prefix_full_rounds |-> << >>,
     partial_rounds |-> << >>, suffix_full_rounds |-> << >>,
     last_round |-> << >>, output_vars |-> << >>]

SetRound(m, member, r) ==
    [m EXCEPT ![member] = r, !.num_variables = @ + 3 * r.nSBox]

SetRounds(m, member, rounds, nSBox) ==
    [m EXCEPT ![member] = rounds,
              !.num_variables = @ + 3 * nSBox * Len(rounds)]

Init_first_round(p, constants, g, m) ==
    SetRound(m, "first_round",
        Poseidon_Round(m.num_variables, constants.C[1], constants.M,
                       InputsToLc(p.nInputs), FirstRoundT(p), g))

Init_prefix_full_rounds(p, constants, g, m) ==
    SetRounds(m, "prefix_full_rounds",
        make_rounds(1, partial_begin(p), m.num_variables,
                    m.first_round.outputs, constants, FullRoundT(p), g),
        p.t)

Init_partial_rounds(p, constants, g, m) ==
    SetRounds(m, "partial_rounds",
        make_rounds(partial_begin(p), partial_end(p), m.num_variables,
                    Back(m.prefix_full_rounds).outputs,
                    constants, PartialRoundT(p), g),
        p.c)

Init_suffix_full_rounds(p, constants, g, m) ==
    SetRounds(m, "suffix_full_rounds",
        make_rounds(partial_end(p), total_rounds(p) - 1, m.num_variables,
                    Back(m.partial_rounds).outputs,
                    constants, FullRoundT(p), g),
        p.t)

Init_last_round(p, constants, g, m) ==
    SetRound(m, "last_round",
        Poseidon_Round(m.num_variables, Back(constants.C), constants.M,
                       Back(m.suffix_full_rounds).outputs, LastRoundT(p), g))

\* make_var_array(pb, nOutputs, ".output")
Init_output_vars(p, m) ==
    [m EXCEPT !.output_vars = [n \in 1 .. p.nOutputs |-> m.num_variables + n],
              !.num_variables = @ + p.nOutputs]

\* The constructor on a protoboard that holds the nInputs input variables.
\* The asserts of Poseidon_Round abort the construction of the first round
\* (nInputs > t) and of the last round (nOutputs > t).
Master_Poseidon_gadget_T(p, constants, g) ==
    IF p.nInputs > p.t \/ p.nOutputs > p.t
    THEN [status |-> "aborted"]
    ELSE Init_output_vars(p,
           Init_last_round(p, constants, g,
             Init_suffix_full_rounds(p, constants, g,
               Init_partial_rounds(p, constants, g,
                 Init_prefix_full_rounds(p, constants, g,
                   Init_first_round(p, constants, g, MembersInit(p)))))))

\* All rounds of a master in the order the master runs them.
MasterRounds(m) ==
    <<m.first_round>> \o m.prefix_full_rounds \o m.partial_rounds
        \o m.suffix_full_rounds \o <<m.last_round>>

RECURSIVE RoundsConstraints(_)
RoundsConstraints(rounds) ==
    IF Len(rounds) = 0 THEN << >>
    ELSE Round_generate_r1cs_constraints(Head(rounds))
            \o RoundsConstraints(Tail(rounds))

OutputConstraints(m) ==
    [i \in 1 .. Len(m.last_round.outputs) |->
        ConstraintT(m.last_round.outputs[i], LcVar(0), LcVar(m.output_vars[i]))]

\* The constraints one call of generate_r1cs_constraints appends.
Master_generate_r1cs_constraints(m) ==
    RoundsConstraints(MasterRounds(m)) \o OutputConstraints(m)

RECURSIVE RoundsWitness(_, _)
RoundsWitness(vals, rounds) ==
    IF Len(rounds) = 0 THEN vals
    ELSE RoundsWitness(Round_generate_r1cs_witness(vals, Head(rounds)),
                       Tail(rounds))

RECURSIVE OutputsWitness(_, _, _)
OutputsWitness(vals, m, n) ==
    IF n >= Len(m.last_round.outputs) THEN vals
    ELSE OutputsWitness(
            [vals EXCEPT ![m.output_vars[n + 1]] =
                            lc_val(vals, m.last_round.outputs[n + 1])],
            m, n + 1)

Master_generate_r1cs_witness(vals, m) ==
    OutputsWitness(RoundsWitness(vals, MasterRounds(m)), m, 0)

(***************************************************************************)
(* State.                                                                  *)
(*   params      the template tuple the program is instantiated with       *)
(*   constants   the memoized PoseidonConstants of poseidon_params         *)
(*   master      the master gadget (get_master's static, or the gadget a   *)
(*               driver builds directly)                                   *)
(*   master_pb   the protoboard the master lives on                        *)
(*   phase       the position of the driver that uses the master directly  *)
(*   cons_calls  calls of the master's generate_r1cs_constraints so far    *)
(*   pb          the caller's protoboard                                   *)
(*   instances   the Poseidon_gadget_T instances stamped into pb           *)
(*   swap_flag   the once_flag of swapAB; swap_calls counts its calls      *)
(*   pc          per thread, its position inside an instance's             *)
(*               generate_r1cs_witness                                     *)
(***************************************************************************)
VARIABLES params, constants, master, master_pb, phase, cons_calls,
          pb, instances, swap_flag, swap_calls, pc

vars == <<params, constants, master, master_pb, phase, cons_calls,
          pb, instances, swap_flag, swap_calls, pc>>

Threads == {"T1", "T2"}

InputVals == 0 .. MaxInputVal

Zeros(n) == [v \in 1 .. n |-> 0]

\* A protoboard as the constructor leaves it.
ProtoboardT ==
    [num_variables |-> 0, constraints |-> << >>, values |-> << >>,
     use_thread_values |-> FALSE,
     thread_values |-> [th \in Threads |-> << >>]]

\* make_var_array(pb, n, ...): n fresh variables, each with value zero.
make_var_array(board, n) ==
    [board EXCEPT !.num_variables = @ + n,
                  !.values = @ \o Zeros(n)]

\* protoboard::set_use_thread_values(true): from then on val() reads and
\* writes the calling thread's own value table.
\* Thread values left switched off.
set_use_thread_values_off(board) == board

set_use_thread_values(board) ==
    [board EXCEPT !.use_thread_values = TRUE,
                  !.thread_values =
                      [th \in Threads |-> Zeros(board.num_variables)]]

\* The value table val() of thread th works on.
PbVals(board, th) ==
    IF board.use_thread_values THEN board.thread_values[th] ELSE board.values

PbSetVals(board, th, vals) ==
    IF board.use_thread_values
    THEN [board EXCEPT !.thread_values[th] = vals]
    ELSE [board EXCEPT !.values = vals]

MasterTuples ==
    [t : 1 .. MaxT, c : 1 .. MaxC, F : 4 .. MaxF, P : 1 .. MaxP,
     nInputs : 1 .. MaxArity, nOutputs : 1 .. MaxArity]

InitCommon ==
    /\ constants = [init |-> FALSE]
    /\ master = [status |-> "none"]
    /\ master_pb = ProtoboardT
    /\ phase = "new"
    /\ cons_calls = 0
    /\ pb = ProtoboardT
    /\ instances = << >>
    /\ swap_flag = FALSE
    /\ swap_calls = 0
    /\ pc = [th \in Threads |-> [at |-> "idle"]]

InitMaster == params \in MasterTuples /\ InitCommon

\* new Master(pb, make_var_array(pb, nInputs, ...), ...) on a fresh
\* protoboard: the gadget m and the protoboard after the construction.
MasterBoard(p, m) ==
    IF m.status = "built"
    THEN make_var_array(ProtoboardT, m.num_variables)
    ELSE make_var_array(ProtoboardT, p.nInputs)

\* The values an out-of-bounds read of constants.M can yield: only a
\* partial round with c > t reads past the end of M.
Garbage(p) == IF p.c > p.t THEN Field ELSE {0}

\* poseidon_params<t, F, P>(): the memoized constants after call_once.
Memoized(consts) == [init |-> TRUE, C |-> consts.C, M |-> consts.M]

InstallMaster(p, m) ==
    /\ constants' = Memoized(poseidon_params(p))
    /\ master' = m
    /\ master_pb' = MasterBoard(p, m)
    /\ phase' = IF m.status = "built" THEN "built" ELSE "aborted"

\* A driver builds the master gadget directly on a protoboard.
MasterConstruct ==
    /\ master.status = "none"
    /\ \E g \in Garbage(params) :
          InstallMaster(params,
              Master_Poseidon_gadget_T(params, poseidon_params(params), g))
    /\ UNCHANGED <<params, cons_calls, pb, instances, swap_flag, swap_calls, pc>>

MasterGenerateConstraints ==
    /\ master.status = "built"
    /\ phase \in {"built", "inputs", "witness"}
    /\ cons_calls < MaxConsCalls
    /\ master_pb' = [master_pb EXCEPT !.constraints =
                        @ \o Master_generate_r1cs_constraints(master)]
    /\ cons_calls' = cons_calls + 1
    /\ UNCHANGED <<params, constants, master, phase, pb, instances,
                   swap_flag, swap_calls, pc>>

\* The driver assigns the input variables 1 .. nInputs.
SetInputs ==
    /\ phase = "built"
    /\ \E x \in [1 .. params.nInputs -> InputVals] :
          master_pb' = PbSetVals(master_pb, "T1",
              [v \in 1 .. master_pb.num_variables |->
                  IF v <= params.nInputs THEN x[v]
                  ELSE PbVals(master_pb, "T1")[v]])
    /\ phase' = "inputs"
    /\ UNCHANGED <<params, constants, master, cons_calls, pb, instances,
                   swap_flag, swap_calls, pc>>

MasterGenerateWitness ==
    /\ phase = "inputs"
    /\ master_pb' = PbSetVals(master_pb, "T1",
           Master_generate_r1cs_witness(PbVals(master_pb, "T1"), master))
    /\ phase' = "witness"
    /\ UNCHANGED <<params, constants, master, cons_calls, pb, instances,
                   swap_flag, swap_calls, pc>>

NextMaster ==
    \/ MasterConstruct
    \/ MasterGenerateConstraints
    \/ SetInputs
    \/ MasterGenerateWitness

SpecMaster == InitMaster /\ [][NextMaster]_vars

(***************************************************************************)
(* Instance stamper (Poseidon_gadget_T) on the caller's protoboard pb.     *)
(* An instance is [instance_inputs, instance_variables_offset, res,        *)
(* instance_var, witness_calls]: instance_var is the array the             *)
(* constructor's make_var_array returns, witness_calls the completed runs  *)
(* of generate_r1cs_witness.  A caller constraint is a                     *)
(* r1cs_constraint_light_instance: the index of the shared master          *)
(* constraint and the instance that translates its indices.                *)
(***************************************************************************)
\* The tuples the stamper is exercised with: valid ones, with one partial
\* round between two pairs of full rounds.
StampTuples ==
    {p \in [t : 1 .. 2, c : {1}, F : {4}, P : {1},
            nInputs : 1 .. 2, nOutputs : 1 .. 2] :
        p.nInputs <= p.t /\ p.nOutputs <= p.t}

Init == params \in StampTuples /\ InitCommon

\* The body of get_master's call_once: the master on its own protoboard,
\* with its constraints generated and thread values switched on.
GetMasterBoard(p, m) ==
    set_use_thread_values(
        [MasterBoard(p, m) EXCEPT
            !.constraints = Master_generate_r1cs_constraints(m)])

\* The auxiliary block taken to start one variable later.
translate_shifted(inst, index) ==
    IF index = 0 THEN 0
    ELSE IF index <= Len(inst.instance_inputs)
         THEN inst.instance_inputs[index]
         ELSE inst.instance_variables_offset
                + (index - Len(inst.instance_inputs))

translate(inst, index) ==
    IF index = 0 THEN 0
    ELSE IF index <= Len(inst.instance_inputs)
         THEN inst.instance_inputs[index]
         ELSE inst.instance_variables_offset
                + (index - (1 + Len(inst.instance_inputs)))

\* The variables of pb that some instance allocated for itself.
InstanceVars ==
    UNION {{instances[i].instance_var[k] :
                k \in 1 .. Len(instances[i].instance_var)} :
           i \in 1 .. Len(instances)}

\* The variables the caller allocated (and assigned) itself.
CallerVars == (1 .. pb.num_variables) \ InstanceVars

\* The caller allocates one variable (its value is zero).
CallerAllocate ==
    /\ Cardinality(CallerVars) < MaxCallerVars
    /\ pb' = make_var_array(pb, 1)
    /\ UNCHANGED <<params, constants, master, master_pb, phase, cons_calls,
                   instances, swap_flag, swap_calls, pc>>

\* The caller allocates one input variable and assigns it.
CallerAllocateInput ==
    /\ Cardinality(CallerVars) < MaxCallerVars
    /\ \E x \in InputVals :
          pb' = [make_var_array(pb, 1) EXCEPT !.values[pb.num_variables + 1] = x]
    /\ UNCHANGED <<params, constants, master, master_pb, phase, cons_calls,
                   instances, swap_flag, swap_calls, pc>>

\* The constructor's body once master is bound: m and board are the master
\* and its protoboard as get_master returns them.
NewInstance(in_inputs, m, board) ==
    [instance_inputs |-> in_inputs,
     instance_variables_offset |-> pb.num_variables + 1,
     instance_var |->
        [k \in 1 .. (board.num_variables - Len(in_inputs)) |->
            pb.num_variables + k],
     res |-> translate([instance_inputs |-> in_inputs,
                        instance_variables_offset |-> pb.num_variables + 1],
                       m.output_vars[1]),
     witness_calls |-> 0]

ConstructWith(in_inputs, m, board) ==
    /\ master' = m
    /\ master_pb' = board
    /\ pb' = make_var_array(pb, board.num_variables - Len(in_inputs))
    /\ instances' = Append(instances, NewInstance(in_inputs, m, board))

ConstructWithNew(in_inputs, m) ==
    ConstructWith(in_inputs, m, GetMasterBoard(params, m))

\* Poseidon_gadget_T(pb, in_inputs, ...): the first construction runs
\* get_master's call_once.
Construct ==
    /\ Len(instances) < MaxInstances
    /\ \E in_inputs \in [1 .. params.nInputs -> CallerVars] :
          IF master.status = "none"
          THEN /\ constants' = Memoized(poseidon_params(params))
               /\ ConstructWithNew(in_inputs,
                      Master_Poseidon_gadget_T(params,
                                               poseidon_params(params), 0))
          ELSE /\ constants' = constants
               /\ ConstructWith(in_inputs, master, master_pb)
    /\ UNCHANGED <<params, phase, cons_calls, swap_flag, swap_calls, pc>>

\* Has instance i's generate_r1cs_constraints run?
ConstraintsDone(i) ==
    \E k \in 1 .. Len(pb.constraints) : pb.constraints[k].translator = i

\* Poseidon_gadget_T::generate_r1cs_constraints of instance i.
GenerateConstraints ==
    /\ \E i \in 1 .. Len(instances) :
          /\ ~ConstraintsDone(i)
          /\ pb' = [pb EXCEPT !.constraints = @ \o
                       [k \in 1 .. Len(master_pb.constraints) |->
                           [constraint |-> k, translator |-> i]]]
    /\ UNCHANGED <<params, constants, master, master_pb, phase, cons_calls,
                   instances, swap_flag, swap_calls, pc>>

\* Threads inside generate_r1cs_witness of instance i.
Running(i) == {th \in Threads : pc[th].at # "idle" /\ pc[th].inst = i}

\* The first loop of generate_r1cs_witness: the caller's input values go
\* into the master's input slots 1 .. nInputs.
\* The inputs read from the caller's variables 1 .. nInputs.
WriteInputs_by_position(vals, inst) ==
    [v \in 1 .. master_pb.num_variables |->
        IF v <= Len(inst.instance_inputs)
        THEN Val(pb.values, v)
        ELSE vals[v]]

WriteInputs(vals, inst) ==
    [v \in 1 .. master_pb.num_variables |->
        IF v <= Len(inst.instance_inputs)
        THEN Val(pb.values, inst.instance_inputs[v])
        ELSE vals[v]]

WitnessSetInputs(th) ==
    /\ pc[th].at = "idle"
    /\ \E i \in 1 .. Len(instances) :
          /\ instances[i].witness_calls + Cardinality(Running(i))
                < MaxWitnessCalls
          /\ master_pb' = PbSetVals(master_pb, th,
                 WriteInputs(PbVals(master_pb, th), instances[i]))
          /\ pc' = [pc EXCEPT ![th] = [at |-> "inputs_set", inst |-> i]]
    /\ UNCHANGED <<params, constants, master, phase, cons_calls, pb,
                   instances, swap_flag, swap_calls>>

\* master.generate_r1cs_witness()
WitnessRunMaster(th) ==
    /\ pc[th].at = "inputs_set"
    /\ master_pb' = PbSetVals(master_pb, th,
           Master_generate_r1cs_witness(PbVals(master_pb, th), master))
    /\ pc' = [pc EXCEPT ![th].at = "master_done"]
    /\ UNCHANGED <<params, constants, master, phase, cons_calls, pb,
                   instances, swap_flag, swap_calls>>

\* The last loop of generate_r1cs_witness: for i < num_variables - nInputs,
\* pb.val(offset + i) = master.pb.val(1 + nInputs + i).
\* The copy reading the master one position too low.
CopyValues_from_inputs(callervals, mastervals, inst) ==
    [v \in 1 .. pb.num_variables |->
        IF /\ v >= inst.instance_variables_offset
           /\ v - inst.instance_variables_offset
                < master_pb.num_variables - Len(inst.instance_inputs)
        THEN mastervals[Len(inst.instance_inputs)
                          + (v - inst.instance_variables_offset)]
        ELSE callervals[v]]

CopyValues(callervals, mastervals, inst) ==
    [v \in 1 .. pb.num_variables |->
        IF /\ v >= inst.instance_variables_offset
           /\ v - inst.instance_variables_offset
                < master_pb.num_variables - Len(inst.instance_inputs)
        THEN mastervals[1 + Len(inst.instance_inputs)
                          + (v - inst.instance_variables_offset)]
        ELSE callervals[v]]

WitnessCopy(th) ==
    /\ pc[th].at = "master_done"
    /\ pb' = [pb EXCEPT !.values =
                CopyValues(pb.values, PbVals(master_pb, th),
                           instances[pc[th].inst])]
    /\ instances' = [instances EXCEPT ![pc[th].inst].witness_calls = @ + 1]
    /\ pc' = [pc EXCEPT ![th] = [at |-> "idle"]]
    /\ UNCHANGED <<params, constants, master, master_pb, phase, cons_calls,
                   swap_flag, swap_calls>>

SwapConstraints(cs) ==
    [k \in 1 .. Len(cs) |-> ConstraintT(cs[k].b, cs[k].a, cs[k].c)]

\* The master constraints after a call of swapAB that finds the once_flag
\* in state flag.
\* swapAB without its once_flag.
SwapABUnguarded(flag, cs) == SwapConstraints(cs)

SwapABOnce(flag, cs) == IF flag THEN cs ELSE SwapConstraints(cs)

\* Poseidon_gadget_T::swapAB through any instance.
SwapAB ==
    /\ Len(instances) > 0
    /\ swap_calls < MaxSwapCalls
    /\ master_pb' = [master_pb EXCEPT
                        !.constraints = SwapABOnce(swap_flag, @)]
    /\ swap_flag' = TRUE
    /\ swap_calls' = swap_calls + 1
    /\ UNCHANGED <<params, constants, master, phase, cons_calls, pb,
                   instances, pc>>

\* The stamper with witness generation from two threads.
Next ==
    \/ CallerAllocateInput
    \/ Construct
    \/ GenerateConstraints
    \/ \E th \in Threads : WitnessSetInputs(th)
    \/ \E th \in Threads : WitnessRunMaster(th)
    \/ \E th \in Threads : WitnessCopy(th)

Spec == Init /\ [][Next]_vars

\* The stamper with swapAB and without witness generation.
NextSwap ==
    \/ CallerAllocate
    \/ Construct
    \/ GenerateConstraints
    \/ SwapAB

SpecSwap == Init /\ [][NextSwap]_vars

\* Allocation, construction and constraint generation only.
NextBuild ==
    \/ CallerAllocate
    \/ Construct
    \/ GenerateConstraints

SpecBuild == Init /\ [][NextBuild]_vars

\* Witness generation from two threads together with swapAB.
NextThreads ==
    \/ CallerAllocateInput
    \/ Construct
    \/ \E th \in Threads : WitnessSetInputs(th)
    \/ \E th \in Threads : WitnessRunMaster(th)
    \/ \E th \in Threads : WitnessCopy(th)
    \/ SwapAB

SpecThreads == Init /\ [][NextThreads]_vars

(***************************************************************************)
(* Properties of the master gadget, checked under SpecMaster.              *)
(***************************************************************************)
Satisfied(vals, cs) ==
    FMul(lc_val(vals, cs.a), lc_val(vals, cs.b)) = lc_val(vals, cs.c)

MasterVals == PbVals(master_pb, "T1")

InputsOf(vals, n) == [k \in 1 .. n |-> vals[k]]

\* C1: for every tuple with F even, nInputs <= t, nOutputs <= t and c >= 1,
\* one call of the master's generate_r1cs_constraints adds exactly
\* 3*(t*F + c*P) + nOutputs constraints to its protoboard.
C1_ConstraintCount ==
    [][(/\ cons_calls' = cons_calls + 1
        /\ params.F % 2 = 0
        /\ params.nInputs <= params.t
        /\ params.nOutputs <= params.t
        /\ params.c >= 1)
       => Len(master_pb'.constraints) =
              Len(master_pb.constraints)
              + 3 * (params.t * params.F + params.c * params.P)
              + params.nOutputs]_vars

C1_Witness ==
    /\ cons_calls = 1
    /\ params.F % 2 = 0
    /\ params.t = 2 /\ params.c = 1 /\ params.P = 2
    /\ params.nInputs = 1 /\ params.nOutputs = 2
    /\ Len(master_pb.constraints) = 3 * (2 * params.F + 2) + 2

\* C2: after generate_r1cs_constraints and generate_r1cs_witness have run on
\* the master for an input vector, every emitted constraint (A, B, C)
\* satisfies eval(A) * eval(B) = eval(C) under the produced witness.
C2_WitnessSound ==
    phase = "witness" =>
        \A k \in 1 .. Len(master_pb.constraints) :
            Satisfied(MasterVals, master_pb.constraints[k])

\* Some S-box of the first round has a position h >= nInputs, an input is
\* non-zero and the output-pinning constraints are among the emitted ones.
C2_Witness ==
    /\ phase = "witness"
    /\ cons_calls = 1
    /\ params.nInputs < params.t
    /\ MasterVals[1] # 0
    /\ MasterVals[master.output_vars[1]] # 0
    /\ \A k \in 1 .. Len(master_pb.constraints) :
            Satisfied(MasterVals, master_pb.constraints[k])

\* The reference evaluator of C3: a width-t state, padded with zeros; in
\* round i add C[i] to every position, raise the first nSBox positions to the
\* fifth power, multiply by the row-major matrix M (nOut rows).
RefSBoxCount(p, i) ==
    IF i >= p.F \div 2 /\ i < p.F \div 2 + p.P THEN p.c ELSE p.t

RefRound(state, C_i, M, t, nSBox, nOut) ==
    SubSeq([i \in 1 .. nOut |->
               FieldSum([j \in 1 .. t |->
                   FMul(M[(i - 1) * t + j],
                        IF j <= nSBox THEN FPow(FAdd(state[j], C_i), 5)
                        ELSE FAdd(state[j], C_i))])],
           1, nOut)

RECURSIVE RefRounds(_, _, _, _)
RefRounds(p, consts, state, i) ==
    IF i = p.F + p.P - 1
    THEN RefRound(state, consts.C[i + 1], consts.M, p.t, p.t, p.nOutputs)
    ELSE RefRounds(p, consts,
             RefRound(state, consts.C[i + 1], consts.M, p.t,
                      RefSBoxCount(p, i), p.t),
             i + 1)

RefHash(p, consts, x) ==
    RefRounds(p, consts,
              [k \in 1 .. p.t |-> IF k <= Len(x) THEN x[k] ELSE 0], 0)

\* C3: after the master's witness generation the values of the last round's
\* nOutputs output linear combinations equal the reference evaluator's output
\* on the same inputs (c <= t, so that the first c positions exist).
C3_PermutationAgreement ==
    (phase = "witness" /\ params.c <= params.t) =>
        [n \in 1 .. params.nOutputs |->
            lc_val(MasterVals, master.last_round.outputs[n])]
        = RefHash(params, constants, InputsOf(MasterVals, params.nInputs))

C3_Witness ==
    /\ phase = "witness"
    /\ params.t = 2 /\ params.c = 1 /\ params.P = 2 /\ params.nOutputs = 2
    /\ params.nInputs = 1
    /\ MasterVals[1] = 1
    /\ lc_val(MasterVals, master.last_round.outputs[1])
         = RefHash(params, constants, <<1>>)[1]

ValidParams(p) ==
    /\ p.nInputs <= p.t
    /\ p.nOutputs <= p.t
    /\ p.F % 2 = 0
    /\ p.c <= p.t

\* C7: constructing the gadget with invalid parameters (nInputs > t, or
\* nOutputs > t, or F odd, or c > t) aborts at construction time, before any
\* constraint is emitted: no gadget with such parameters is ever built.
C7_InvalidParamsAbort ==
    /\ master.status = "built" => ValidParams(params)
    /\ (master.status # "none" /\ ~ValidParams(params)) =>
            (phase = "aborted" /\ Len(master_pb.constraints) = 0)

\* C8 as stated: one first round, F/2 - 1 prefix rounds, P partial rounds,
\* F/2 suffix rounds and one last round, F + P rounds in total.
C8_AsStated ==
    (master.status = "built" /\ params.F % 2 = 0) =>
        /\ Len(master.prefix_full_rounds) = params.F \div 2 - 1
        /\ Len(master.partial_rounds) = params.P
        /\ Len(master.suffix_full_rounds) = params.F \div 2
        /\ Len(MasterRounds(master)) = params.F + params.P

\* C8, amended: one first round, F/2 - 1 full prefix rounds, P partial rounds,
\* F/2 - 1 full suffix rounds and one last round, F + P rounds in total; round
\* i is built with C[i] and takes the previous round's outputs as its state.
C8_RoundCounts ==
    (master.status = "built" /\ params.F % 2 = 0) =>
        /\ Len(master.prefix_full_rounds) = params.F \div 2 - 1
        /\ Len(master.partial_rounds) = params.P
        /\ Len(master.suffix_full_rounds) = params.F \div 2 - 1
        /\ Len(MasterRounds(master)) = params.F + params.P
        /\ \A i \in 1 .. Len(MasterRounds(master)) :
              /\ MasterRounds(master)[i].C_i = constants.C[i]
              /\ MasterRounds(master)[i].nSBox =
                    RefSBoxCount(params, i - 1)
              /\ i > 1 => MasterRounds(master)[i].state
                            = MasterRounds(master)[i - 1].outputs

C8_Witness ==
    /\ master.status = "built"
    /\ params.F = 4 /\ params.P = 2 /\ params.t = 2 /\ params.c = 1
    /\ Len(master.suffix_full_rounds) = 1
    /\ Len(MasterRounds(master)) = 6

(***************************************************************************)
(* Properties of the instance stamper.                                     *)
(***************************************************************************)
\* The caller's witness as instance inst's translation presents it to a
\* master constraint.
TranslatedVals(inst) ==
    [v \in 1 .. master_pb.num_variables |-> Val(pb.values, translate(inst, v))]

\* The shared master constraint a caller constraint points to.
InstanceView(e) == master_pb.constraints[e.constraint]

\* The master's value table after its witness generation on inputs x.
MasterRunOn(x) ==
    Master_generate_r1cs_witness(
        [v \in 1 .. master.num_variables |-> IF v <= Len(x) THEN x[v] ELSE 0],
        master)

InstanceInputVals(inst) ==
    [k \in 1 .. Len(inst.instance_inputs) |->
        Val(pb.values, inst.instance_inputs[k])]

\* C4: once an instance has run generate_r1cs_witness, each of its copied
\* constraints, read through its index translation, satisfies A * B = C on
\* the caller's witness, and its output variable holds the value the master's
\* output variable takes on its inputs, whatever the other instances did
\* before or after.
C4_StamperEquivalence ==
    \A i \in 1 .. Len(instances) :
        instances[i].witness_calls >= 1 =>
            /\ \A k \in 1 .. Len(pb.constraints) :
                  pb.constraints[k].translator = i =>
                      Satisfied(TranslatedVals(instances[i]),
                                InstanceView(pb.constraints[k]))
            /\ pb.values[instances[i].res]
                 = MasterRunOn(InstanceInputVals(instances[i]))[master.output_vars[1]]

\* Two instances on different inputs, both with constraints and witness.
C4_Witness ==
    /\ Len(instances) = 2
    /\ instances[1].witness_calls >= 1 /\ instances[2].witness_calls >= 1
    /\ ConstraintsDone(1) /\ ConstraintsDone(2)
    /\ InstanceInputVals(instances[1]) # InstanceInputVals(instances[2])
    /\ pb.values[instances[1].res] # pb.values[instances[2].res]
    /\ \A k \in 1 .. Len(pb.constraints) :
          Satisfied(TranslatedVals(instances[pb.constraints[k].translator]),
                    InstanceView(pb.constraints[k]))

\* C5: any number of swapAB calls has the net effect of one: the A and B
\* linear combinations of every shared master constraint are swapped exactly
\* once, and every stamped instance sees the swapped constraints.
C5_SwapOnce ==
    master.status = "built" =>
        LET fresh == Master_generate_r1cs_constraints(master)
        IN  /\ master_pb.constraints =
                  IF swap_calls >= 1 THEN SwapConstraints(fresh) ELSE fresh
            /\ swap_flag <=> swap_calls >= 1
            /\ swap_calls >= 1 =>
                  \A k \in 1 .. Len(pb.constraints) :
                      /\ InstanceView(pb.constraints[k]).a =
                            fresh[pb.constraints[k].constraint].b
                      /\ InstanceView(pb.constraints[k]).b =
                            fresh[pb.constraints[k].constraint].a

C5_Witness ==
    /\ swap_calls = 2
    /\ Len(instances) = 2
    /\ ConstraintsDone(1) /\ ConstraintsDone(2)
    /\ master_pb.constraints # Master_generate_r1cs_constraints(master)
    /\ master_pb.constraints =
          SwapConstraints(Master_generate_r1cs_constraints(master))

C6_ThreadIsolation ==
    \A th \in Threads :
        pc[th].at = "master_done" =>
            PbVals(master_pb, th)
                = MasterRunOn(InstanceInputVals(instances[pc[th].inst]))

C6_Frame ==
    master.status = "built" =>
        /\ constants' = constants
        /\ master' = master
        /\ master_pb'.num_variables = master_pb.num_variables
        /\ master_pb'.values = master_pb.values
        /\ master_pb'.constraints # master_pb.constraints
              => swap_calls' = swap_calls + 1
        /\ \A th \in Threads :
              master_pb'.thread_values[th] # master_pb.thread_values[th]
                  => (pc'[th] # pc[th] /\ pc[th].at \in {"idle", "inputs_set"})

CopyOfRange(inst, mastervals, last) ==
    [v \in 1 .. pb.num_variables |->
        IF /\ v >= inst.instance_variables_offset
           /\ 1 + Len(inst.instance_inputs)
                + (v - inst.instance_variables_offset) <= last
        THEN mastervals[1 + Len(inst.instance_inputs)
                          + (v - inst.instance_variables_offset)]
        ELSE pb.values[v]]

\* What the first two steps of an instance's generate_r1cs_witness do.
C9_InputsAndMaster(th) ==
    /\ (pc[th].at = "idle" /\ pc'[th].at = "inputs_set") =>
          /\ pb' = pb
          /\ \A k \in 1 .. params.nInputs :
                PbVals(master_pb', th)[k] =
                    pb.values[instances[pc'[th].inst].instance_inputs[k]]
    /\ (pc[th].at = "inputs_set" /\ pc'[th].at = "master_done") =>
          /\ pb' = pb
          /\ PbVals(master_pb', th) =
                Master_generate_r1cs_witness(PbVals(master_pb, th), master)

\* C9 as stated: the copy takes the master positions in
\* [1 + nInputs, master.num_variables()), the upper bound excluded, and
\* writes nothing else.
C9_AsStated ==
    [][\A th \in Threads :
          /\ C9_InputsAndMaster(th)
          /\ (pc[th].at = "master_done" /\ pc'[th].at = "idle") =>
                pb'.values = CopyOfRange(instances[pc[th].inst],
                                         PbVals(master_pb, th),
                                         master_pb.num_variables - 1)]_vars

\* C9, amended: generate_r1cs_witness writes the caller's input values into
\* the master's slots [1, nInputs], runs the master's witness, and copies
\* into the caller's auxiliary block exactly the values of the master
\* positions [1 + nInputs, master.num_variables()], the upper bound included
\* (the last one is the output variable); it writes no caller variable
\* outside that block and leaves the caller's input variables unchanged.
C9_WitnessFrame ==
    [][\A th \in Threads :
          /\ C9_InputsAndMaster(th)
          /\ (pc[th].at = "master_done" /\ pc'[th].at = "idle") =>
                /\ pb'.values = CopyOfRange(instances[pc[th].inst],
                                            PbVals(master_pb, th),
                                            master_pb.num_variables)
                /\ pb'.num_variables = pb.num_variables
                /\ pb'.constraints = pb.constraints
                /\ \A v \in 1 .. pb.num_variables :
                      pb'.values[v] # pb.values[v] =>
                          v \in {instances[pc[th].inst].instance_var[k] :
                                   k \in 1 .. Len(instances[pc[th].inst].instance_var)}
                /\ \A k \in 1 .. params.nInputs :
                      pb'.values[instances[pc[th].inst].instance_inputs[k]] =
                        pb.values[instances[pc[th].inst].instance_inputs[k]]]_vars

\* An instance whose witness has run holds a non-zero output in the last
\* variable of its block, next to another instance's block.
C9_Witness ==
    /\ Len(instances) = 2
    /\ instances[1].witness_calls >= 1
    /\ pb.values[instances[1].res] # 0
    /\ pb.values[instances[1].instance_inputs[1]] # 0
    /\ instances[2].witness_calls = 0

Block(inst) == {inst.instance_var[k] : k \in 1 .. Len(inst.instance_var)}

\* C10: every instance's translate maps each non-input master index k in
\* (nInputs, master.num_variables()] into the block of
\* master.num_variables() - nInputs variables the instance allocated itself,
\* injectively; the blocks of distinct instances never overlap; with
\* nOutputs = 1 the result variable is the last variable of the block.
C10_TranslateBlocks ==
    \A i \in 1 .. Len(instances) :
        LET inst  == instances[i]
            idx   == (params.nInputs + 1) .. master_pb.num_variables
            image == {translate(inst, k) : k \in idx}
        IN  /\ Len(inst.instance_var)
                  = master_pb.num_variables - params.nInputs
            /\ Cardinality(Block(inst)) = Len(inst.instance_var)
            /\ Block(inst) \subseteq 1 .. pb.num_variables
            /\ image \subseteq Block(inst)
            /\ Cardinality(image) = Cardinality(idx)
            /\ \A j \in 1 .. Len(instances) :
                  j # i => Block(inst) \cap Block(instances[j]) = {}
            /\ params.nOutputs = 1 =>
                  inst.res = inst.instance_var[Len(inst.instance_var)]

\* Two instances with caller variables allocated before, between and after.
C10_Witness ==
    /\ Len(instances) = 2
    /\ params.nOutputs = 1 /\ params.nInputs = 2
    /\ instances[1].instance_variables_offset = 2
    /\ instances[2].instance_variables_offset
          > instances[1].res + 1
    /\ instances[2].res = pb.num_variables

====
